---- MODULE Spec2Model ----
(***************************************************************************)
(* Model of botplayers/agent.py (GPTPlayers/gpt-players): the callable-    *)
(* function registry, Agent memory, function dispatch and the think-act    *)
(* loop.  Python lists live in a heap (list id -> contents) so that        *)
(* aliasing between agents' memories is visible.  Text is a TLA+ string.   *)
(* Further specifications cover the streaming wrapper (StreamSpec), the    *)
(* persona loader of botplayers/function.py (LoaderSpec), and the          *)
(* fact-review function and console loop of app/memory_tests/simple.py     *)
(* (ReviewSpec, ConsoleSpec), and the World registry of agent.py           *)
(* (WorldSpec).                                                            *)
(***************************************************************************)
EXTENDS Integers, Sequences, FiniteSets, TLC

VARIABLES
    CALLABLE_FUNCTION_TABLE, \* agent.py:13, insertion-ordered dict as a sequence of entries
    agents,                  \* constructed Agent instances: id -> instance attributes
    heap,                    \* Python list objects: list id -> sequence of messages
    frame,                   \* the activation of think_and_act (single-threaded program)
    last,                    \* what the most recent operation did (history)
    BOTS,                    \* function.py:8, persona name -> (agent, template)
    opened,                  \* the persona definition files opened so far, in order
    stream,                  \* the activation of stream_chat_completion
    review,                  \* the activation of Database.review_info
    console,                 \* the read loop of simple.py
    World_agents,            \* agent.py:339, the dict bound to the class attribute World.agents
    worlds                   \* constructed World instances: id -> instance attributes

vars == <<CALLABLE_FUNCTION_TABLE, agents, heap, frame, last, BOTS, opened,
          stream, review, console, World_agents, worlds>>

\* The parts of the state an operation of the Agent class leaves alone.
elsewhere == <<stream, review, console, World_agents, worlds>>

----------------------------------------------------------------------------
(* Bounds of the model *)

MaxAgents == 2
MaxMessages == 5
MaxRepeats == 2
MaxDeltas == 3
MaxFacts == 2
MaxCalls == 3
MaxWorlds == 2

----------------------------------------------------------------------------
(* Python values *)

PyNone == [t |-> "None"]
PyStr(s) == [t |-> "str", v |-> s]
PyBool(b) == [t |-> "bool", v |-> b]
PyDict(d) == [t |-> "dict", v |-> d]
PyAgent(a) == [t |-> "Agent", id |-> a]
PyWorld == [t |-> "World"]

WORLD_PARAM_NAME == "self"
AGENT_PARAM_NAME == "agent"
AGENT_NAME_PARAM_NAME == "agent_name"
ReservedParams == {WORLD_PARAM_NAME, AGENT_PARAM_NAME, AGENT_NAME_PARAM_NAME}

\* The list object bound to the class attribute Agent.memory.
ClassMemory == 0

----------------------------------------------------------------------------
(* Inputs *)

Names == {"Bot"}
Prompts == {"You are a helpful bot."}
Filters == {".*", "reviewer"}
Worlds == {PyNone}

\* The constructor arguments tried: the defaults with a bounded repeat count,
\* the same keeping plain replies, and a one-shot reviewer.
Constructions ==
    { [role |-> "agent", function_call_repeats |-> MaxRepeats,
       ignore_none_function_messages |-> TRUE],
      [role |-> "agent", function_call_repeats |-> MaxRepeats,
       ignore_none_function_messages |-> FALSE],
      [role |-> "reviewer", function_call_repeats |-> 1,
       ignore_none_function_messages |-> FALSE] }

\* Python functions that may be decorated: declared name and parameter names.
Functions ==
    { [name |-> "rephrase", parameters |-> {"sentence"}],
      [name |-> "review", parameters |-> {"self", "agent", "agent_name"}] }

UserMessages == { [role |-> "user", content |-> "hi"] }

\* The message or messages given to response_to_message (a single dict is
\* wrapped into a list by the code).
MessageLists ==
    { << [role |-> "user", content |-> "hi"] >>,
      << [role |-> "user", content |-> "hi"], [role |-> "user", content |-> "more"] >> }

\* Completions the remote service may stream back: a plain reply, or a request
\* to call a function (registered or not; "arguments" is None or JSON text).
PlainReplies == { [role |-> "assistant", content |-> "yes"] }

FunctionCalls ==
    { [name |-> "rephrase", arguments |-> PyStr("{\"sentence\": \"hi\"}")],
      [name |-> "review", arguments |-> PyNone],
      [name |-> "nosuch", arguments |-> PyStr("{}")] }

FunctionCallReplies ==
    { [role |-> "assistant", content |-> "", function_call |-> fc] : fc \in FunctionCalls }

\* Requests to call a function that needs no argument from the caller, in
\* every form the "arguments" entry may take: JSON text of an empty object,
\* None, the empty text, or no entry at all.
ArgumentForms ==
    { [name |-> "review", arguments |-> PyStr("{}")],
      [name |-> "review", arguments |-> PyNone],
      [name |-> "review", arguments |-> PyStr("")],
      [name |-> "review"] }

ArgumentFormReplies ==
    { [role |-> "assistant", content |-> "", function_call |-> fc] : fc \in ArgumentForms }

Completions == PlainReplies \cup FunctionCallReplies

\* Answers to a request that carries no function list: the service asks for
\* a function call only when functions were offered.
Responses == PlainReplies \cup { [role |-> "assistant", content |-> "no"] }

\* What the body of a registered function does once its arguments are bound:
\* it returns a value, returns nothing, or raises an Exception with a message.
Outcomes ==
    { [kind |-> "return", value |-> PyNone],
      [kind |-> "return", value |-> PyStr("ok")],
      [kind |-> "raise", error |-> "boom"] }

----------------------------------------------------------------------------
(* Library functions used by the code *)

\* re.match for patterns made of literal characters, ".", "x*" and a final "$":
\* the pattern has to match at the start of the string, not all of it.
charmatch(c, x) == c = "." \/ c = x

RECURSIVE matchhere(_, _)
matchhere(re, s) ==
    IF re = "" THEN TRUE
    ELSE IF re = "$" THEN s = ""
    ELSE IF Len(re) >= 2 /\ Head(Tail(re)) = "*"
         THEN \E k \in 0..Len(s):
                  /\ \A j \in 1..k: charmatch(Head(re), SubSeq(s, j, j))
                  /\ matchhere(Tail(Tail(re)), SubSeq(s, k + 1, Len(s)))
    ELSE s # "" /\ charmatch(Head(re), Head(s)) /\ matchhere(Tail(re), Tail(s))

re_match(pattern, string) == matchhere(pattern, string)

\* json.dumps of a str: quotes and backslashes are escaped.
RECURSIVE json_escape(_)
json_escape(s) ==
    IF s = "" THEN ""
    ELSE (IF Head(s) = "\"" THEN "\\\""
          ELSE IF Head(s) = "\\" THEN "\\\\"
          ELSE Head(s)) \o json_escape(Tail(s))

\* json.dumps(value, default=str) for the values a dispatch can produce.
RECURSIVE json_dumps(_)
json_dumps(value) ==
    CASE value.t = "None" -> "null"
      [] value.t = "str" -> "\"" \o json_escape(value.v) \o "\""
      [] value.t = "bool" -> IF value.v THEN "true" ELSE "false"
      [] value.t = "dict" ->
            IF DOMAIN value.v = {} THEN "{}"
            ELSE LET k == CHOOSE x \in DOMAIN value.v: TRUE
                 IN "{\"" \o json_escape(k) \o "\": " \o json_dumps(value.v[k]) \o "}"

\* json.loads on the argument texts of FunctionCalls and ArgumentForms.
json_loads(s) ==
    CASE s = "{}" -> [ok |-> TRUE, value |-> <<>>]
      [] s = "{\"sentence\": \"hi\"}" ->
            [ok |-> TRUE, value |-> [sentence |-> PyStr("hi")]]
      [] OTHER ->
            [ok |-> FALSE, error |-> "Expecting value: line 1 column 1 (char 0)"]

----------------------------------------------------------------------------
(* The registry: the decorator agent_callable *)

TableNames ==
    { CALLABLE_FUNCTION_TABLE[k].name : k \in DOMAIN CALLABLE_FUNCTION_TABLE }

TableEntry(function_name) ==
    CALLABLE_FUNCTION_TABLE[
        CHOOSE k \in DOMAIN CALLABLE_FUNCTION_TABLE:
            CALLABLE_FUNCTION_TABLE[k].name = function_name]

\* The entry agent_callable(role_name_filter)(function) stores under the
\* function's name; no parameter of Functions has a default value.
function_info(function, role_name_filter) ==
    [ name |-> function.name,
      sig |-> [ name |-> function.name,
                required |-> function.parameters \ ReservedParams ],
      function |-> function,
      has_world_param |-> WORLD_PARAM_NAME \in function.parameters,
      has_agent_param |-> AGENT_PARAM_NAME \in function.parameters,
      has_agent_name_param |-> AGENT_NAME_PARAM_NAME \in function.parameters,
      role_name_filter |-> role_name_filter ]

\* The decorations of the program: rephrase as botplayers/function.py decorates
\* it, review limited to the role "reviewer".
Decorations ==
    { <<f, r>> \in Functions \X Filters:
        \/ f.name = "rephrase" /\ r = ".*"
        \/ f.name = "review" /\ r = "reviewer" }

agent_callable(function, role_name_filter) ==
    /\ frame.pc = "idle"
    /\ CALLABLE_FUNCTION_TABLE' =
          IF function.name \in TableNames
          THEN [ k \in DOMAIN CALLABLE_FUNCTION_TABLE |->
                   IF CALLABLE_FUNCTION_TABLE[k].name = function.name
                   THEN function_info(function, role_name_filter)
                   ELSE CALLABLE_FUNCTION_TABLE[k] ]
          ELSE Append(CALLABLE_FUNCTION_TABLE,
                      function_info(function, role_name_filter))
    /\ last' = [ op |-> "agent_callable", agent |-> 0, args |-> <<>>,
                 request |-> <<>>, new_message |-> <<>>, dispatch |-> <<>>,
                 ret |-> PyNone, raised |-> FALSE ]
    /\ UNCHANGED <<agents, heap, frame, BOTS, opened, elsewhere>>

----------------------------------------------------------------------------
(* Agent *)

Constructed == DOMAIN agents

memory(a) == heap[agents[a].memory]

\* A role test that lets every function through.
role_ignored(role_name_filter, role) == TRUE

\* The role test of _callable_function_descriptions.
role_allowed(role_name_filter, role) == re_match(role_name_filter, role)

_callable_function_descriptions(a) ==
    LET visible(function) == role_allowed(function.role_name_filter, agents[a].role)
        kept == SelectSeq(CALLABLE_FUNCTION_TABLE, visible)
    IN [ k \in DOMAIN kept |-> kept[k].sig ]

\* The persona functions of function.py; each loads the persona of its name.
Personas == {"rephrase", "is_related", "is_sufficient", "summarize", "extract_keywords"}

\* The parameters of Agent.__init__ that have no default value.
Agent__init__required == {"name", "prompt"}

\* The parameters that the constructor call in _load_bot binds.
Agent__init__supplied ==
    {"name", "engine", "function_call_repeats", "ignore_none_function_messages"}

\* What receive_message and think_and_act hand back to their caller: both
\* fall off their end.
receive_message_returns(a) == PyNone
think_and_act_returns(a) == PyNone

\* expr.attribute(...) where expr is the value v.
no_attribute(v, attribute) ==
    "'NoneType' object has no attribute '" \o attribute \o "'"

\* _load_bot(name) with the cache bots and the files opened so far: the
\* result, the cache and the files afterwards.
_load_bot(name, bots, files) ==
    LET missing == Agent__init__required \ Agent__init__supplied
        agent == PyAgent(Cardinality(DOMAIN agents) + 1)
        pair == << agent, "template.user of " \o name >>
    IN IF name \in DOMAIN bots
       THEN [ kind |-> "return", value |-> bots[name], BOTS |-> bots, opened |-> files ]
       ELSE IF missing # {}
       THEN [ kind |-> "raise",
              error |-> "__init__() missing 1 required positional argument: '"
                        \o (CHOOSE x \in missing: TRUE) \o "'",
              BOTS |-> bots, opened |-> Append(files, name) ]
       ELSE [ kind |-> "return", value |-> pair,
              BOTS |-> [ n \in DOMAIN bots \cup {name} |->
                           IF n = name THEN pair ELSE bots[n] ],
              opened |-> Append(files, name) ]

\* The body of a persona function: _load_bot, then the chained calls on the
\* persona's agent, which end at the value receive_message returns.
persona_function(name, bots, files) ==
    LET loaded == _load_bot(name, bots, files)
    IN IF loaded.kind = "raise" THEN loaded
       ELSE IF receive_message_returns(loaded.value[1].id) = PyNone
       THEN [ kind |-> "raise", error |-> no_attribute(PyNone, "think_and_act"),
              BOTS |-> loaded.BOTS, opened |-> loaded.opened ]
       ELSE [ kind |-> "raise", error |-> no_attribute(PyNone, "last_message"),
              BOTS |-> loaded.BOTS, opened |-> loaded.opened ]

\* What the body of the registered function does: a persona function does
\* what function.py says, any other function what the outcome says.
function_body(function_name, bots, files, outcome) ==
    IF function_name \in Personas
    THEN [ kind |-> "raise", error |-> persona_function(function_name, bots, files).error ]
    ELSE outcome

\* function_to_call(**function_args): Python binds the keyword arguments to
\* the parameters, then the body runs.
invoke(function, function_args, outcome) ==
    LET unexpected == DOMAIN function_args \ function.parameters
        missing == function.parameters \ DOMAIN function_args
    IN IF unexpected # {}
       THEN [ kind |-> "raise",
              error |-> function.name \o "() got an unexpected keyword argument '"
                        \o (CHOOSE x \in unexpected: TRUE) \o "'",
              invoked |-> <<>>, caught |-> <<>> ]
       ELSE IF missing # {}
       THEN [ kind |-> "raise",
              error |-> function.name \o "() missing 1 required positional argument: '"
                        \o (CHOOSE x \in missing: TRUE) \o "'",
              invoked |-> <<>>, caught |-> <<>> ]
       ELSE IF outcome.kind = "raise"
       THEN [ kind |-> "raise", error |-> outcome.error,
              invoked |-> << [name |-> function.name, kwargs |-> function_args] >>,
              caught |-> <<>> ]
       ELSE [ kind |-> "return", value |-> outcome.value,
              invoked |-> << [name |-> function.name, kwargs |-> function_args] >>,
              caught |-> <<>> ]

\* The injection of the reserved parameters, lines 228-233.
inject(function_args, key, wanted, value) ==
    IF wanted
    THEN [ k \in DOMAIN function_args \cup {key} |->
             IF k = key THEN value ELSE function_args[k] ]
    ELSE function_args

\* The body of the try statement of _call_function.
try_call(a, function_call, world, outcome) ==
    LET function_info_ == TableEntry(function_call.name)
        loaded == json_loads(function_call.arguments.v)
        with_world(args) ==
            inject(args, WORLD_PARAM_NAME, function_info_.has_world_param, world)
        with_agent(args) ==
            inject(args, AGENT_PARAM_NAME, function_info_.has_agent_param, PyAgent(a))
        with_name(args) ==
            inject(args, AGENT_NAME_PARAM_NAME, function_info_.has_agent_name_param,
                   PyStr(agents[a].name))
        call(args) ==
            invoke(function_info_.function, with_name(with_agent(with_world(args))),
                   outcome)
    IN IF "arguments" \notin DOMAIN function_call
       THEN [ kind |-> "raise", error |-> "'arguments'", invoked |-> <<>>, caught |-> <<>> ]
       ELSE IF function_call.arguments = PyNone
       THEN call(<<>>)
       ELSE IF ~loaded.ok
       THEN [ kind |-> "raise", error |-> loaded.error, invoked |-> <<>>, caught |-> <<>> ]
       ELSE call(loaded.value)

\* A dispatcher without its except clause: the exception goes on.
except_nothing(result) == result

\* except Exception as e: return {'error': str(e)}
except_Exception(result) ==
    IF result.kind = "raise"
    THEN [ kind |-> "return", value |-> PyDict([error |-> PyStr(result.error)]),
           invoked |-> result.invoked, caught |-> << result.error >> ]
    ELSE result

not_callable(function_name) ==
    PyDict([error |-> PyStr("\"" \o function_name \o "\" is not a callable function.")])

\* A dispatcher without the registry test: the lookup of an unknown name
\* fails inside the try statement with a KeyError.
_call_function_unchecked(a, function_call, world, outcome) ==
    except_Exception(
        IF function_call.name \notin TableNames
        THEN [ kind |-> "raise", error |-> "'" \o function_call.name \o "'",
               invoked |-> <<>>, caught |-> <<>> ]
        ELSE try_call(a, function_call, world, outcome))

_call_function(a, function_call, world, outcome) ==
    IF function_call.name \notin TableNames
    THEN [ kind |-> "return", value |-> not_callable(function_call.name),
           invoked |-> <<>>, caught |-> <<>> ]
    ELSE except_Exception(try_call(a, function_call, world, outcome))

\* The number of messages held by all the list objects together.
RECURSIVE Held(_, _)
Held(h, ls) ==
    IF ls = {} THEN 0
    ELSE LET l == CHOOSE x \in ls: TRUE
         IN Len(h[l]) + Held(h, ls \ {l})

Room(k) == Held(heap, DOMAIN heap) + k <= MaxMessages

Idle == [ pc |-> "idle", agent |-> 0, world |-> PyNone, i |-> 0, requests |-> 0 ]

Event(op, a, args, request, new_message, dispatch, ret, raised) ==
    [ op |-> op, agent |-> a, args |-> args, request |-> request,
      new_message |-> new_message, dispatch |-> dispatch, ret |-> ret,
      raised |-> raised ]

\* The heap after list object l is given the contents c (allocating l if new).
Store(h, l, c) == [ x \in DOMAIN h \cup {l} |-> IF x = l THEN c ELSE h[x] ]

system_message(prompt) == [role |-> "system", content |-> prompt]

\* A constructor that appends to the list of the class attribute instead of
\* binding a list of its own.
Agent__init__shared(prompt) ==
    [ list |-> ClassMemory,
      contents |-> Append(heap[ClassMemory], system_message(prompt)) ]

\* self.memory = [{"role": "system", "content": prompt}]: a new list object.
Agent__init__memory(prompt) ==
    [ list |-> Cardinality(DOMAIN heap), contents |-> << system_message(prompt) >> ]

\* The body of the constructor: the instance and its memory.
Agent__init__self(name, prompt, role, function_call_repeats, ignore_none_function_messages) ==
    LET self == Cardinality(Constructed) + 1
        mem == Agent__init__memory(prompt)
    IN /\ frame.pc = "idle"
       /\ self <= MaxAgents
       /\ Room(1)
       /\ agents' = [ x \in Constructed \cup {self} |->
                        IF x = self
                        THEN [ name |-> name, role |-> role, memory |-> mem.list,
                               function_call_repeats |-> function_call_repeats,
                               ignore_none_function_messages |->
                                   ignore_none_function_messages,
                               prompt |-> prompt, avatar |-> FALSE ]
                        ELSE agents[x] ]
       /\ heap' = Store(heap, mem.list, mem.contents)

\* Agent(name, prompt, ...) called by the program.
Agent__init__(name, prompt, role, function_call_repeats, ignore_none_function_messages) ==
    /\ Agent__init__self(name, prompt, role, function_call_repeats,
                         ignore_none_function_messages)
    /\ last' = Event("Agent__init__", Cardinality(Constructed) + 1, <<>>, <<>>, <<>>,
                     <<>>, PyNone, FALSE)
    /\ UNCHANGED <<CALLABLE_FUNCTION_TABLE, frame, BOTS, opened, elsewhere>>

\* self.memory.insert(0, message)
list_insert_front(contents, message) == << message >> \o contents

\* self.memory.append(message)
list_append(contents, message) == Append(contents, message)

receive_message(a, message) ==
    /\ frame.pc = "idle"
    /\ Room(1)
    /\ heap' = Store(heap, agents[a].memory, list_append(memory(a), message))
    /\ last' = Event("receive_message", a, [message |-> message], <<>>, <<>>, <<>>,
                     receive_message_returns(a), FALSE)
    /\ UNCHANGED <<CALLABLE_FUNCTION_TABLE, agents, frame, BOTS, opened, elsewhere>>

\* The list object of the local new_memory while response_to_message runs.
NewMemory == 0 - 1

\* new_memory = self.memory: the same list object.
list_alias(l) == l

\* self.memory.copy(): a new list object with the same entries.
list_copy(l) == NewMemory

response_to_message(a, message, store_in_memory, response) ==
    LET self_memory == agents[a].memory
        new_memory == list_copy(self_memory)
        copied == Store(heap, new_memory, heap[self_memory])
        extended == Store(copied, new_memory, copied[new_memory] \o message)
        request == [ messages |-> extended[new_memory] ]
        stored == IF store_in_memory
                  THEN Store(extended, self_memory,
                             Append(extended[self_memory] \o message, response))
                  ELSE extended
    IN /\ frame.pc = "idle"
       /\ Room(Len(message) + 1)
       /\ heap' = [ l \in DOMAIN heap |-> stored[l] ]
       /\ last' = Event("response_to_message", a,
                        [message |-> message, store_in_memory |-> store_in_memory],
                        << request >>, << response >>, <<>>, PyDict(response), FALSE)
       /\ UNCHANGED <<CALLABLE_FUNCTION_TABLE, agents, frame, BOTS, opened, elsewhere>>

\* A loop that never runs out of iterations.
in_range_forever(i, n) == TRUE

\* for _ in range(self.function_call_repeats)
in_range(i, n) == i < n

done_if_None(function_response) ==
    IF function_response = PyNone THEN PyStr("done") ELSE function_response

\* A function message whose content is str(function_response).
function_message_str(function_name, function_response) ==
    [ role |-> "function", name |-> function_name,
      content |-> IF function_response.t = "str" THEN function_response.v
                  ELSE json_dumps(function_response) ]

function_message(function_name, function_response) ==
    [ role |-> "function", name |-> function_name,
      content |-> json_dumps(function_response) ]

\* An else branch that keeps every plain reply.
plain_reply_kept(contents, ignore_none_function_messages, new_message) ==
    list_append(contents, new_message)

\* The else branch of the loop body, lines 333-334.
plain_reply(contents, ignore_none_function_messages, new_message) ==
    IF ~ignore_none_function_messages
    THEN list_append(contents, new_message)
    ELSE contents

think_and_act(a, world) ==
    /\ frame.pc = "idle"
    /\ Room(2 * agents[a].function_call_repeats)
    /\ frame' = [ pc |-> IF in_range(0, agents[a].function_call_repeats)
                         THEN "loop" ELSE "return",
                  agent |-> a, world |-> world, i |-> 0, requests |-> 0 ]
    /\ last' = Event("think_and_act", a, [world |-> world], <<>>, <<>>, <<>>, PyNone, FALSE)
    /\ UNCHANGED <<CALLABLE_FUNCTION_TABLE, agents, heap, BOTS, opened, elsewhere>>

RequestsCall(message) == "function_call" \in DOMAIN message

\* The result is recorded before the call it answers.
append_result_and_call(contents, new_message, result_message) ==
    list_append(list_append(contents, result_message), new_message)

\* self.memory.append(new_message), the dispatch, then
\* self.memory.append({"role": "function", ...}).
append_call_and_result(contents, new_message, result_message) ==
    list_append(list_append(contents, new_message), result_message)

\* One pass through the loop body: the completion request and what follows it.
think_and_act_iteration(new_message, outcome) ==
    LET a == frame.agent
        callable_functions == _callable_function_descriptions(a)
        request == IF callable_functions # <<>>
                   THEN [ messages |-> memory(a), functions |-> callable_functions,
                          function_call |-> "auto" ]
                   ELSE [ messages |-> memory(a) ]
        function_call == new_message.function_call
        called == list_append(memory(a), new_message)
        result == _call_function(a, function_call, frame.world,
                                 function_body(function_call.name, BOTS, opened, outcome))
        persona == persona_function(function_call.name, BOTS, opened)
        loads == /\ RequestsCall(new_message)
                 /\ function_call.name \in Personas
                 /\ result.invoked # <<>>
    IN /\ frame.pc = "loop"
       /\ BOTS' = IF loads THEN persona.BOTS ELSE BOTS
       /\ opened' = IF loads THEN persona.opened ELSE opened
       /\ IF "function_call" \in DOMAIN new_message
          THEN IF result.kind = "raise"
               THEN \* the exception leaves think_and_act
                    /\ heap' = Store(heap, agents[a].memory, called)
                    /\ frame' = Idle
                    /\ last' = Event("think_and_act_iteration", a, <<>>, << request >>,
                                     << new_message >>, << result >>, PyNone, TRUE)
               ELSE /\ heap' = Store(heap, agents[a].memory,
                              append_call_and_result(memory(a), new_message,
                                  function_message(function_call.name,
                                                   done_if_None(result.value))))
                    /\ frame' = [ frame EXCEPT
                                    !.i = @ + 1,
                                    !.requests = @ + 1,
                                    !.pc = IF in_range(frame.i + 1,
                                                       agents[a].function_call_repeats)
                                           THEN "loop" ELSE "return" ]
                    /\ last' = Event("think_and_act_iteration", a, <<>>, << request >>,
                                     << new_message >>, << result >>, PyNone, FALSE)
          ELSE /\ heap' = Store(heap, agents[a].memory,
                                plain_reply(memory(a),
                                            agents[a].ignore_none_function_messages,
                                            new_message))
               /\ frame' = [ frame EXCEPT !.requests = @ + 1, !.pc = "return" ]
               /\ last' = Event("think_and_act_iteration", a, <<>>, << request >>,
                                << new_message >>, <<>>, PyNone, FALSE)
       /\ UNCHANGED <<CALLABLE_FUNCTION_TABLE, agents, elsewhere>>

\* The function falls off its end: it returns None.
think_and_act_return ==
    /\ frame.pc = "return"
    /\ frame' = Idle
    /\ last' = Event("think_and_act_return", frame.agent, <<>>, <<>>, <<>>, <<>>,
                     think_and_act_returns(frame.agent), FALSE)
    /\ UNCHANGED <<CALLABLE_FUNCTION_TABLE, agents, heap, BOTS, opened, elsewhere>>

\* derive_avatar(interactive_objects=[]): a new Agent with the parent's
\* identity and configuration and an empty memory of its own.
derive_avatar(parent) ==
    LET self == Cardinality(Constructed) + 1
        list == Cardinality(DOMAIN heap)
    IN /\ frame.pc = "idle"
       /\ self <= MaxAgents
       /\ agents' = [ x \in Constructed \cup {self} |->
                        IF x = self
                        THEN [ agents[parent] EXCEPT !.memory = list, !.avatar = TRUE ]
                        ELSE agents[x] ]
       /\ heap' = Store(heap, list, <<>>)
       /\ last' = Event("derive_avatar", self, [parent |-> parent], <<>>, <<>>, <<>>, PyAgent(self), FALSE)
       /\ UNCHANGED <<CALLABLE_FUNCTION_TABLE, frame, BOTS, opened, elsewhere>>

----------------------------------------------------------------------------
(* stream_chat_completion, agent.py:105-145 *)

\* The deltas the service may stream, one choice per chunk: the opening delta
\* of a reply, content fragments (text, the two-newline fragment, the empty
\* fragment) and fragments of a function call.
Deltas ==
    { [role |-> "assistant", content |-> PyNone],
      [content |-> PyStr("\n\n")],
      [content |-> PyStr("Hi")],
      [content |-> PyStr("")],
      [function_call |-> [name |-> "rephrase", arguments |-> ""]],
      [function_call |-> [arguments |-> "{\"a\":"]],
      [function_call |-> [arguments |-> " 1}"]] }

Streams == UNION { [1..n -> Deltas] : n \in 0..MaxDeltas }

StreamOff ==
    [ pc |-> "off", resp |-> <<>>, seen |-> <<>>, role |-> "", content |-> "",
      function_call |-> <<>>, message |-> <<>> ]

\* role = '', content = '', function_call = dict(), and the deltas to come.
StreamStart(resp) == [ StreamOff EXCEPT !.pc = "loop", !.resp = resp ]

\* function_call[key] = val: the fragment replaces what was accumulated.
accumulate_overwrite(function_call, key, val) ==
    [ k \in DOMAIN function_call \cup {key} |->
        IF k = key THEN val ELSE function_call[k] ]

\* if key not in function_call: function_call[key] = val
\* else: function_call[key] += val
accumulate(function_call, key, val) ==
    [ k \in DOMAIN function_call \cup {key} |->
        IF k # key THEN function_call[k]
        ELSE IF key \notin DOMAIN function_call THEN val
        ELSE function_call[key] \o val ]

\* for key, val in delta['function_call'].items()
RECURSIVE accumulate_items(_, _, _)
accumulate_items(function_call, items, keys) ==
    IF keys = {} THEN function_call
    ELSE LET key == CHOOSE k \in keys: TRUE
         IN accumulate_items(accumulate(function_call, key, items[key]), items,
                             keys \ {key})

\* A test that drops the two-newline fragment wherever it arrives.
skipped_anywhere(content, fragment) ==
    fragment = PyStr("\n\n") \/ fragment = PyNone

\* len(content) == 0 and delta['content'] == '\n\n' or delta['content'] is None
skipped(content, fragment) ==
    (Len(content) = 0 /\ fragment = PyStr("\n\n")) \/ fragment = PyNone

\* The body of the inner loop for the next delta of the response.
stream_chat_completion_delta ==
    /\ stream.pc = "loop"
    /\ stream.resp # <<>>
    /\ LET delta == Head(stream.resp)
           role == IF "role" \in DOMAIN delta THEN delta.role ELSE stream.role
           function_call ==
               IF "function_call" \in DOMAIN delta
               THEN accumulate_items(stream.function_call, delta.function_call,
                                     DOMAIN delta.function_call)
               ELSE stream.function_call
           content ==
               IF "content" \in DOMAIN delta /\ ~skipped(stream.content, delta.content)
               THEN stream.content \o delta.content.v
               ELSE stream.content
       IN stream' = [ stream EXCEPT !.resp = Tail(@), !.seen = Append(@, delta),
                                    !.role = role, !.content = content,
                                    !.function_call = function_call ]
    /\ UNCHANGED <<CALLABLE_FUNCTION_TABLE, agents, heap, frame, last, BOTS, opened,
                   World_agents, worlds,
                   review, console>>

\* The response is exhausted: the message is built and returned.
stream_chat_completion_return ==
    /\ stream.pc = "loop"
    /\ stream.resp = <<>>
    /\ LET message == [role |-> stream.role, content |-> stream.content]
           with_call == [role |-> stream.role, content |-> stream.content,
                         function_call |-> stream.function_call]
       IN stream' = [ stream EXCEPT
                        !.pc = "done",
                        !.message = IF Cardinality(DOMAIN stream.function_call) > 0
                                    THEN << with_call >> ELSE << message >> ]
    /\ UNCHANGED <<CALLABLE_FUNCTION_TABLE, agents, heap, frame, last, BOTS, opened,
                   World_agents, worlds,
                   review, console>>

----------------------------------------------------------------------------
(* Database.review_info, app/memory_tests/simple.py:8-62 *)

Database == [t |-> "Database"]

AllInfo ==
    << "Alice is born in 1990.", "Bob is born in 1991.", "David is born in 1995.",
       "Alice is in Kansas.", "Bob is in New York.", "David is in California.",
       "Alice likes David." >>

\* The facts of the database: the first MaxFacts entries of the list.
info_list == SubSeq(AllInfo, 1, MaxFacts)

num_confirms == 5

\* The contents of the last messages of the probes of one vote, were the
\* probes to run to their end: 5, 3, 2 and 0 of them affirmative.
Votes ==
    { << "Yes.", "yes", "Yes, it is.", "y", "YES" >>,
      << "Yes.", "no", "yes", "No.", "Yeah" >>,
      << "no", "Yes.", "No.", "yes", "no" >>,
      << "No.", "no", "Not useful.", "no", "n" >> }

\* The service's answers, per fact, to the usefulness probes and to the
\* probes of the sufficiency vote.
ReplyPlans == [ 1..MaxFacts -> [useful: Votes, sufficient: Votes] ]

\* str.lower() on the letters that begin the replies.
lower_char(c) ==
    IF c = "Y" THEN "y" ELSE IF c = "N" THEN "n" ELSE c

RECURSIVE lower(_)
lower(s) == IF s = "" THEN "" ELSE lower_char(Head(s)) \o lower(Tail(s))

startswith(s, prefix) ==
    Len(s) >= Len(prefix) /\ SubSeq(s, 1, Len(prefix)) = prefix

\* '\n'.join([f'- {item}' for item in list_data])
RECURSIVE to_markdown(_)
to_markdown(list_data) ==
    IF list_data = <<>> THEN ""
    ELSE IF Len(list_data) = 1 THEN "- " \o list_data[1]
    ELSE "- " \o list_data[1] \o "\n" \o to_markdown(Tail(list_data))

qs ==
    << "Do you have sufficient infomation to answer the user's question? Answer yes or no.",
       "Do current info suffice to answer the user's question? Answer yes or no.",
       "Do you have enough info to answer the user's question? Answer yes or no." >>

\* agent.derive_avatar(interactive_objects=[]).receive_message(message)
\*      .think_and_act().last_message()['content'].lower().startswith('y')
\* for an avatar whose think_and_act would end with the given content: the
\* value or the exception, and what the avatar's memory holds afterwards.
probe(message, content) ==
    LET received == << [role |-> "user", content |-> message] >>
        replied == Append(received, [role |-> "assistant", content |-> content])
    IN IF receive_message_returns(0) = PyNone
       THEN [ kind |-> "raise", error |-> no_attribute(PyNone, "think_and_act"),
              memory |-> received ]
       ELSE IF think_and_act_returns(0) = PyNone
       THEN [ kind |-> "raise", error |-> no_attribute(PyNone, "last_message"),
              memory |-> replied ]
       ELSE [ kind |-> "return", value |-> startswith(lower(content), "y"),
              memory |-> replied ]

\* The list comprehension over range(num_confirms), from probe k on: the
\* number of affirmative results, or the exception of the first probe that
\* raises, and the avatars derived.
RECURSIVE confirm(_, _, _, _)
confirm(kind, messages, contents, k) ==
    IF k > num_confirms
    THEN [ kind |-> "return", yes |-> 0, probed |-> <<>> ]
    ELSE LET p == probe(messages[k], contents[k])
             entry == [ vote |-> kind, memory |-> p.memory ]
             rest == confirm(kind, messages, contents, k + 1)
         IN IF p.kind = "raise"
            THEN [ kind |-> "raise", error |-> p.error, yes |-> 0,
                   probed |-> << entry >> ]
            ELSE [ rest EXCEPT !.yes = @ + (IF p.value THEN 1 ELSE 0),
                               !.probed = << entry >> \o @ ]

\* The loop over the facts from index idx on (0-based as in the code).
RECURSIVE review_from(_, _, _)
review_from(idx, useful_info, replies) ==
    IF idx >= Len(info_list)
    THEN [ kind |-> "return", value |-> useful_info, probed |-> <<>> ]
    ELSE LET info == info_list[idx + 1]
             not_last == idx < Len(info_list) - 1
             info_show_to_agent ==
                 "[info from database]: " \o info \o "\n" \o
                 (IF not_last THEN "Is this info useful? Answer yes or no."
                  ELSE "There are no more info in the dabase.")
             useful == confirm(<<"useful", idx>>,
                               [qidx \in 1..num_confirms |-> info_show_to_agent],
                               replies[idx + 1].useful, 1)
             appended == Append(useful_info, info)
             sufficient ==
                 confirm(<<"sufficient", idx>>,
                         [qidx \in 1..num_confirms |->
                            "Current info:\n" \o to_markdown(appended) \o "\n" \o
                            qs[((qidx - 1) % Len(qs)) + 1]],
                         replies[idx + 1].sufficient, 1)
             after(r, probed) == [ r EXCEPT !.probed = probed \o @ ]
         IN IF useful.kind = "raise" THEN useful
            ELSE IF useful.yes >= (num_confirms \div 2) + 1
            THEN IF ~not_last
                 THEN after(review_from(idx + 1, appended, replies), useful.probed)
                 ELSE IF sufficient.kind = "raise"
                 THEN after(sufficient, useful.probed)
                 ELSE IF sufficient.yes >= (num_confirms \div 2) + 1
                 THEN \* break
                      [ kind |-> "return", value |-> appended,
                        probed |-> useful.probed \o sufficient.probed ]
                 ELSE after(review_from(idx + 1, appended, replies),
                            useful.probed \o sufficient.probed)
            ELSE after(review_from(idx + 1, useful_info, replies), useful.probed)

\* The body of review_info for the value bound to self.
review_info_body(self, replies) ==
    IF self = PyNone
    THEN [ kind |-> "raise", error |-> no_attribute(PyNone, "info_list"),
           probed |-> <<>> ]
    ELSE review_from(0, <<>>, replies)

ReviewOff == [ pc |-> "off", self |-> PyNone, agent |-> 0, replies |-> <<>>,
               result |-> <<>> ]

\* review_info(self, agent) runs: every probe derives an avatar of the agent,
\* which keeps what it received.
review_info ==
    LET result == review_info_body(review.self, review.replies)
        first == Cardinality(Constructed)
        lists == Cardinality(DOMAIN heap)
        avatars == 1..Len(result.probed)
    IN /\ review.pc = "call"
       /\ agents' = [ x \in Constructed \cup { first + k : k \in avatars } |->
                        IF x \in Constructed THEN agents[x]
                        ELSE [ agents[review.agent] EXCEPT
                                 !.memory = lists + (x - first) - 1,
                                 !.avatar = TRUE ] ]
       /\ heap' = [ l \in DOMAIN heap \cup { lists + k - 1 : k \in avatars } |->
                      IF l \in DOMAIN heap THEN heap[l]
                      ELSE result.probed[l - lists + 1].memory ]
       /\ review' = [ review EXCEPT !.pc = "done", !.result = << result >> ]
       /\ last' = Event("review_info", review.agent, [self |-> review.self], <<>>,
                        <<>>, <<>>, PyNone, result.kind = "raise")
       /\ UNCHANGED <<CALLABLE_FUNCTION_TABLE, frame, BOTS, opened, stream, console,
                     World_agents, worlds>>

----------------------------------------------------------------------------
(* The read loop, app/memory_tests/simple.py:65-84 *)

\* Lines the user may type.
Lines == {"exit", "q", "quit()", "quit", "::mem", "", "  ", "hi"}

\* A loop that knows a single word to end it.
QuitWordsExit == {"exit"}

\* if user_message in {'exit', 'q', 'quit()', 'quit'}: break
QuitWords == {"exit", "q", "quit()", "quit"}

whitespace(c) == c \in {" ", "\t", "\n"}

RECURSIVE lstrip(_)
lstrip(s) ==
    IF s # "" /\ whitespace(Head(s)) THEN lstrip(Tail(s)) ELSE s

RECURSIVE rstrip(_)
rstrip(s) ==
    IF s # "" /\ whitespace(SubSeq(s, Len(s), Len(s)))
    THEN rstrip(SubSeq(s, 1, Len(s) - 1)) ELSE s

\* A strip that leaves the text as it is.
strip_nothing(s) == s

\* str.strip()
strip(s) == rstrip(lstrip(s))

\* The agent of the module: Agent('Bot', prompt=..., function_call_repeats=1,
\* ignore_none_function_messages=False), its role the default.
Bot ==
    [ name |-> "Bot", role |-> "agent", memory |-> 1, function_call_repeats |-> 1,
      ignore_none_function_messages |-> FALSE,
      prompt |-> "You are a helpful bot.", avatar |-> FALSE ]

ConsoleOff == [ pc |-> "off", line |-> "" ]

\* agent.print_full_memory(): the memory is shown, nothing is changed.
print_full_memory(a) == heap

\* One pass through the body of the while loop up to the call of
\* think_and_act, whose iterations are the steps that follow.
console_input(user_message) ==
    LET a == 1
        received == IF strip(user_message) # ""
                    THEN Store(heap, agents[a].memory,
                               list_append(memory(a),
                                           [role |-> "user", content |-> user_message]))
                    ELSE heap
    IN /\ console.pc = "loop"
       /\ frame.pc = "idle"
       /\ IF user_message \in QuitWords
          THEN \* break
               /\ console' = [ pc |-> "exited", line |-> user_message ]
               /\ UNCHANGED <<heap, frame>>
          ELSE IF user_message = "::mem"
          THEN \* continue
               /\ console' = [ pc |-> "loop", line |-> user_message ]
               /\ heap' = print_full_memory(a)
               /\ UNCHANGED frame
          ELSE /\ Room(1 + 2 * agents[a].function_call_repeats)
               /\ console' = [ pc |-> "loop", line |-> user_message ]
               /\ heap' = received
               /\ frame' = [ pc |-> IF in_range(0, agents[a].function_call_repeats)
                                    THEN "loop" ELSE "return",
                             agent |-> a, world |-> PyNone, i |-> 0, requests |-> 0 ]
       /\ last' = Event("input", a, [user_message |-> user_message], <<>>, <<>>, <<>>,
                        PyNone, FALSE)
       /\ UNCHANGED <<CALLABLE_FUNCTION_TABLE, agents, BOTS, opened, stream, review,
                     World_agents, worlds>>

----------------------------------------------------------------------------
(* The persona functions called by the program itself, function.py:30-117 *)

persona_call(name) ==
    LET result == persona_function(name, BOTS, opened)
    IN /\ frame.pc = "idle"
       /\ Len(opened) < MaxCalls
       /\ BOTS' = result.BOTS
       /\ opened' = result.opened
       /\ last' = Event(name, 0, <<>>, <<>>, <<>>, << result >>, PyNone,
                        result.kind = "raise")
       /\ UNCHANGED <<CALLABLE_FUNCTION_TABLE, agents, heap, frame, elsewhere>>

----------------------------------------------------------------------------
(* World, agent.py:338-369 *)

\* The names given to the agents of a world.
AgentNames == {"Bot", "Eve"}

\* The attributes of a new World instance: the class defines no __init__ and
\* no method assigns self.agents, so the instance has none of its own.
World__dict__ == <<>>

\* d[key] = value on a dict object.
dict_setitem(d, key, value) ==
    [ k \in DOMAIN d \cup {key} |-> IF k = key THEN value ELSE d[k] ]

\* self.agents: the attribute of the instance if it has one, else the
\* attribute of the class.
self_agents(self) ==
    IF "agents" \in DOMAIN worlds[self] THEN worlds[self].agents ELSE World_agents

\* self.agents[name] = agent: the dict object that self.agents evaluates to
\* is changed in place.
self_agents_setitem(self, name, agent) ==
    IF "agents" \in DOMAIN worlds[self]
    THEN /\ worlds' = [ worlds EXCEPT ![self] =
                          [ attribute \in DOMAIN worlds[self] |->
                              IF attribute = "agents"
                              THEN dict_setitem(worlds[self].agents, name, agent)
                              ELSE worlds[self][attribute] ] ]
         /\ UNCHANGED World_agents
    ELSE /\ World_agents' = dict_setitem(World_agents, name, agent)
         /\ UNCHANGED worlds

\* World()
World__new__ ==
    /\ frame.pc = "idle"
    /\ Len(worlds) < MaxWorlds
    /\ worlds' = Append(worlds, World__dict__)
    /\ last' = Event("World", 0, [world |-> Len(worlds) + 1], <<>>, <<>>, <<>>,
                     PyNone, FALSE)
    /\ UNCHANGED <<CALLABLE_FUNCTION_TABLE, agents, heap, frame, BOTS, opened,
                   stream, review, console, World_agents>>

add_agent(self, name, prompt, role, function_call_repeats, ignore_none_function_messages) ==
    LET agent == Cardinality(Constructed) + 1
    IN /\ Agent__init__self(name, prompt, role, function_call_repeats,
                            ignore_none_function_messages)
       /\ self_agents_setitem(self, name, agent)
       /\ last' = Event("add_agent", agent, [world |-> self, name |-> name], <<>>,
                        <<>>, <<>>, PyNone, FALSE)
       /\ UNCHANGED <<CALLABLE_FUNCTION_TABLE, frame, BOTS, opened,
                      stream, review, console>>

add(self, agent) ==
    /\ frame.pc = "idle"
    /\ self_agents_setitem(self, agents[agent].name, agent)
    /\ last' = Event("add", agent, [world |-> self, name |-> agents[agent].name],
                     <<>>, <<>>, <<>>, PyNone, FALSE)
    /\ UNCHANGED <<CALLABLE_FUNCTION_TABLE, agents, heap, frame, BOTS, opened,
                   stream, review, console>>

----------------------------------------------------------------------------
(* The program *)

\* The modules are imported: nothing is registered, constructed or cached.
Imported ==
    /\ CALLABLE_FUNCTION_TABLE = <<>>
    /\ agents = <<>>
    /\ heap = [ l \in {ClassMemory} |-> <<>> ]
    /\ frame = Idle
    /\ last = Event("start", 0, <<>>, <<>>, <<>>, <<>>, PyNone, FALSE)
    /\ BOTS = <<>>
    /\ opened = <<>>
    /\ World_agents = <<>>
    /\ worlds = <<>>

Init ==
    /\ Imported
    /\ stream = StreamOff
    /\ review = ReviewOff
    /\ console = ConsoleOff

Next ==
    \/ \E d \in Decorations: agent_callable(d[1], d[2])
    \/ \E name \in Names, prompt \in Prompts, c \in Constructions:
          Agent__init__(name, prompt, c.role, c.function_call_repeats,
                        c.ignore_none_function_messages)
    \/ \E a \in Constructed, m \in UserMessages: receive_message(a, m)
    \/ \E a \in Constructed, ms \in MessageLists, store \in BOOLEAN,
          response \in Responses:
          response_to_message(a, ms, store, response)
    \/ \E a \in Constructed, world \in Worlds: think_and_act(a, world)
    \/ \E new_message \in Completions, outcome \in Outcomes:
          think_and_act_iteration(new_message, outcome)
    \/ think_and_act_return
    \/ \E parent \in Constructed: derive_avatar(parent)

Spec == Init /\ [][Next]_vars

\* The think-act loop of one agent after another, with completions that
\* request a function in every form of its arguments.
DispatchNext ==
    \/ \E d \in Decorations: agent_callable(d[1], d[2])
    \/ \E name \in Names, prompt \in Prompts, c \in Constructions:
          Agent__init__(name, prompt, c.role, c.function_call_repeats,
                        c.ignore_none_function_messages)
    \/ \E a \in Constructed, world \in Worlds: think_and_act(a, world)
    \/ \E new_message \in PlainReplies \cup ArgumentFormReplies, outcome \in Outcomes:
          think_and_act_iteration(new_message, outcome)
    \/ think_and_act_return

DispatchSpec == Init /\ [][DispatchNext]_vars

\* stream_chat_completion applied to every stream of at most MaxDeltas deltas.
StreamInit ==
    /\ Imported
    /\ stream \in { StreamStart(resp) : resp \in Streams }
    /\ review = ReviewOff
    /\ console = ConsoleOff

StreamNext ==
    \/ stream_chat_completion_delta
    \/ stream_chat_completion_return

StreamSpec == StreamInit /\ [][StreamNext]_vars

\* _load_bot reached through direct calls of the persona functions.
LoaderNext == \E name \in Personas: persona_call(name)

LoaderSpec == Init /\ [][LoaderNext]_vars

\* The module's agent, constructed.
BotConstructed ==
    /\ agents = << Bot >>
    /\ heap = [ l \in {ClassMemory, Bot.memory} |->
                  IF l = ClassMemory THEN <<>> ELSE << system_message(Bot.prompt) >> ]
    /\ frame = Idle
    /\ last = Event("start", 0, <<>>, <<>>, <<>>, <<>>, PyNone, FALSE)
    /\ BOTS = <<>>
    /\ opened = <<>>
    /\ stream = StreamOff
    /\ World_agents = <<>>
    /\ worlds = <<>>

\* review_info applied to the module's agent, with the space the dispatcher
\* of think_and_act() passes (None) or with the database itself.
ReviewInit ==
    /\ BotConstructed
    /\ CALLABLE_FUNCTION_TABLE = <<>>
    /\ review \in [ pc: {"call"}, self: {PyNone, Database}, agent: {1},
                    replies: ReplyPlans, result: {<<>>} ]
    /\ console = ConsoleOff

ReviewNext == review_info

ReviewSpec == ReviewInit /\ [][ReviewNext]_vars

\* The read loop of simple.py with the persona functions of the package
\* imported or not.
ConsoleInit ==
    /\ BotConstructed
    /\ CALLABLE_FUNCTION_TABLE \in
          { <<>>, << function_info(CHOOSE f \in Functions: f.name = "rephrase", ".*") >> }
    /\ review = ReviewOff
    /\ console = [ pc |-> "loop", line |-> "" ]

ConsoleNext ==
    \/ \E user_message \in Lines: console_input(user_message)
    \/ \E new_message \in Completions, outcome \in Outcomes:
          think_and_act_iteration(new_message, outcome)
    \/ think_and_act_return

ConsoleSpec == ConsoleInit /\ [][ConsoleNext]_vars

\* Worlds and agents constructed, and agents registered in the worlds by
\* add_agent and add.
WorldNext ==
    \/ World__new__
    \/ \E name \in AgentNames, prompt \in Prompts, c \in Constructions:
          Agent__init__(name, prompt, c.role, c.function_call_repeats,
                        c.ignore_none_function_messages)
    \/ \E self \in DOMAIN worlds, name \in AgentNames, prompt \in Prompts,
          c \in Constructions:
          add_agent(self, name, prompt, c.role, c.function_call_repeats,
                    c.ignore_none_function_messages)
    \/ \E self \in DOMAIN worlds, agent \in Constructed: add(self, agent)

WorldSpec == Init /\ [][WorldNext]_vars

\* A call of think_and_act that has started runs on: the program is
\* single-threaded and the call blocks its caller until it returns.
FairSpec ==
    /\ Spec
    /\ WF_vars(\E new_message \in Completions, outcome \in Outcomes:
                  think_and_act_iteration(new_message, outcome))
    /\ WF_vars(think_and_act_return)

----------------------------------------------------------------------------
(* Claims *)

Running == frame.pc # "idle"

BoundedRequests ==
    Running => frame.requests <= agents[frame.agent].function_call_repeats

\* C1: one call of think_and_act issues at most function_call_repeats
\* completion requests and then returns, whatever the completions are, also
\* when every one of them requests a function call.
C1_ThinkAndActTerminates ==
    /\ []BoundedRequests
    /\ Running ~> (~Running /\ last.op = "think_and_act_return")

\* A call about to return after every one of its (at least two) completions
\* requested a function call.
C1_Witness ==
    /\ frame.pc = "return"
    /\ frame.i >= 2
    /\ frame.i = agents[frame.agent].function_call_repeats
    /\ frame.requests = frame.i

\* A step of the loop body of think_and_act, and its parts.
IterationStep == frame.pc = "loop" /\ last'.op = "think_and_act_iteration"

Iterated == last.op = "think_and_act_iteration"

LastEntry(a) == memory(a)[Len(memory(a))]

Budget(a) == agents[a].function_call_repeats

\* C2: an iteration whose completion requests a function call extends the
\* memory by exactly two entries: the assistant's function-call message, then
\* a function-role message named after the called function whose content is
\* the JSON text of the dispatch result ("done" serialized when the function
\* returned no value); the loop goes on iff budget remains.
C2_FunctionCallIteration ==
    [][ (IterationStep /\ RequestsCall(last'.new_message[1])) =>
          LET a == frame.agent
              new_message == last'.new_message[1]
              result == last'.dispatch[1]
              content == IF result.value = PyNone THEN "\"done\""
                         ELSE json_dumps(result.value)
          IN /\ Len(last'.dispatch) = 1
             /\ memory(a)' = memory(a) \o
                    << new_message,
                       [ role |-> "function",
                         name |-> new_message.function_call.name,
                         content |-> content ] >>
             /\ frame'.pc = IF frame.i + 1 < Budget(a) THEN "loop" ELSE "return"
      ]_vars

\* A function that returned no value was dispatched, "done" was recorded and
\* the loop is at its next iteration.
C2_Witness ==
    /\ Iterated
    /\ RequestsCall(last.new_message[1])
    /\ last.dispatch[1].invoked # <<>>
    /\ last.dispatch[1].value = PyNone
    /\ LastEntry(last.agent).content = "\"done\""
    /\ frame.pc = "loop"
    /\ frame.i = 1

\* C3: a completion without a function call ends the loop at that iteration
\* whatever budget remains; the reply is appended as the last memory entry
\* when ignore_none_function_messages is false and the memory is left as it
\* was when it is true.
C3_PlainReplyEndsLoop ==
    [][ /\ (IterationStep /\ ~RequestsCall(last'.new_message[1])) =>
              LET a == frame.agent
              IN /\ frame'.pc = "return"
                 /\ last'.dispatch = <<>>
                 /\ agents[a].ignore_none_function_messages =>
                        memory(a)' = memory(a)
                 /\ ~agents[a].ignore_none_function_messages =>
                        memory(a)' = Append(memory(a), last'.new_message[1])
        /\ frame.pc = "return" =>
              /\ frame' = Idle
              /\ heap' = heap
              /\ last'.request = <<>>
      ]_vars

\* A plain reply on the first iteration of an agent that ignores such replies
\* and had budget left: only its system prompt is in memory.
C3_Witness ==
    /\ Iterated
    /\ ~RequestsCall(last.new_message[1])
    /\ frame.pc = "return"
    /\ frame.i = 0
    /\ Budget(last.agent) >= 2
    /\ agents[last.agent].ignore_none_function_messages
    /\ Len(memory(last.agent)) = 1

UnknownCalled ==
    /\ Iterated
    /\ last.dispatch # <<>>
    /\ last.new_message[1].function_call.name \notin TableNames

\* C4 as stated: the error text is the bare name followed by
\* " is not a callable function.".
C4_Original ==
    UnknownCalled =>
        last.dispatch[1].value =
            PyDict([error |-> PyStr(last.new_message[1].function_call.name
                                    \o " is not a callable function.")])

\* C4: dispatching a name that is not in the registry returns, without
\* raising and without invoking any function, {error: "\"<name>\" is not a
\* callable function."} with the name in double quotes; think_and_act records
\* it as the function-role message and goes on.
C4_UnknownFunction ==
    UnknownCalled =>
        LET a == last.agent
            function_name == last.new_message[1].function_call.name
            result == last.dispatch[1]
        IN /\ ~last.raised
           /\ result.kind = "return"
           /\ result.invoked = <<>>
           /\ result.caught = <<>>
           /\ result.value =
                 PyDict([error |-> PyStr("\"" \o function_name
                                         \o "\" is not a callable function.")])
           /\ LastEntry(a) =
                 [ role |-> "function", name |-> function_name,
                   content |-> "{\"error\": \"\\\"" \o function_name
                               \o "\\\" is not a callable function.\"}" ]
           /\ frame.pc \in {"loop", "return"}
           /\ frame.agent = a

\* An unknown name was dispatched while a function was registered, and the
\* loop is at its next iteration.
C4_Witness ==
    /\ UnknownCalled
    /\ TableNames # {}
    /\ frame.pc = "loop"

BodyRaised ==
    /\ Iterated
    /\ last.dispatch # <<>>
    /\ last.dispatch[1].invoked # <<>>
    /\ last.dispatch[1].caught # <<>>

\* C5: when a registered function raises, the dispatcher returns
\* {error: "<message>"}, think_and_act appends it as the function-role message
\* and runs on to its normal end; no exception leaves think_and_act.
C5_FunctionErrorContained ==
    /\ [](~last.raised)
    /\ [](BodyRaised =>
            LET a == last.agent
                message == last.dispatch[1].caught[1]
            IN /\ last.dispatch[1].kind = "return"
               /\ last.dispatch[1].value = PyDict([error |-> PyStr(message)])
               /\ LastEntry(a) =
                     [ role |-> "function",
                       name |-> last.new_message[1].function_call.name,
                       content |-> "{\"error\": \"" \o message \o "\"}" ]
               /\ frame.pc \in {"loop", "return"}
               /\ frame.agent = a)
    /\ BodyRaised ~> (~Running /\ last.op = "think_and_act_return")

\* The body of a registered function raised "boom" and the loop is at its
\* next iteration.
C5_Witness ==
    /\ BodyRaised
    /\ last.dispatch[1].caught = << "boom" >>
    /\ frame.pc = "loop"

IsPrefix(s, t) == Len(s) <= Len(t) /\ SubSeq(t, 1, Len(s)) = s

\* C6: memory is append-only: across every operation the memory before is a
\* prefix of the memory after, and entry 0 of an agent built by the
\* constructor is always the system prompt it was given.
C6_MemoryAppendOnly ==
    [][ /\ \A a \in Constructed: IsPrefix(memory(a), memory(a)')
        /\ \A a \in DOMAIN agents':
              ~agents'[a].avatar =>
                  /\ Len(memory(a)') >= 1
                  /\ memory(a)'[1] =
                        [role |-> "system", content |-> agents'[a].prompt]
      ]_vars

\* An agent whose memory holds, after its system prompt, a received message,
\* an assistant reply and a dispatched function call with its result.
C6_Witness ==
    \E a \in Constructed:
        /\ ~agents[a].avatar
        /\ Len(memory(a)) = MaxMessages
        /\ memory(a)[1].role = "system"
        /\ memory(a)[2].role = "user"
        /\ memory(a)[3].role = "assistant"
        /\ RequestsCall(memory(a)[4])
        /\ memory(a)[5].role = "function"

\* C7: no two agents share a memory list, a parent and its avatar included:
\* an operation on one agent leaves the memory of every other agent as it was.
C7_MemoryNotShared ==
    [][ /\ \A a, b \in DOMAIN agents':
              a # b => agents'[a].memory # agents'[b].memory
        /\ \A a \in DOMAIN agents': agents'[a].memory # ClassMemory
        /\ \A b \in Constructed:
              b # last'.agent => memory(b)' = memory(b)
      ]_vars

\* An avatar and its parent, both constructed agents with memories in use: the
\* avatar has just run an iteration that wrote to its memory and the parent's
\* memory still holds only what the parent was given.
C7_Witness ==
    \E parent, avatar \in Constructed:
        /\ agents[avatar].avatar
        /\ ~agents[parent].avatar
        /\ last.op = "think_and_act_iteration"
        /\ last.agent = avatar
        /\ Len(memory(avatar)) >= 2
        /\ memory(parent) =
              << [role |-> "system", content |-> agents[parent].prompt],
                 [role |-> "user", content |-> "hi"] >>

\* C8 as stated: receive_message and think_and_act return the agent they were
\* called on.
C8_ReturnsAgent ==
    last.op \in {"receive_message", "think_and_act_return"} =>
        last.ret = PyAgent(last.agent)

\* C9: response_to_message dispatches nothing and attaches no function list
\* to its request; with store_in_memory false the memory is unchanged, with
\* store_in_memory true it becomes the memory before, then the input messages
\* in order, then the response.
C9_ResponseToMessage ==
    [][ last'.op = "response_to_message" =>
          \A a \in Constructed:
              a = last'.agent =>
                  LET message == last'.args.message
                      response == last'.new_message[1]
                  IN /\ last'.dispatch = <<>>
                     /\ Len(last'.request) = 1
                     /\ DOMAIN last'.request[1] = {"messages"}
                     /\ last'.request[1].messages = memory(a) \o message
                     /\ last'.ret = PyDict(response)
                     /\ frame' = frame
                     /\ IF last'.args.store_in_memory
                        THEN memory(a)' = memory(a) \o message \o << response >>
                        ELSE memory(a)' = memory(a)
      ]_vars

\* Two input messages and the response were stored, for an agent to which a
\* registered function is visible.
C9_Witness ==
    /\ last.op = "response_to_message"
    /\ last.args.store_in_memory
    /\ Len(last.args.message) = 2
    /\ last.args.message[1] # last.args.message[2]
    /\ last.new_message[1].content = "no"
    /\ _callable_function_descriptions(last.agent) # <<>>
    /\ LastEntry(last.agent) = last.new_message[1]

Described(a) ==
    { _callable_function_descriptions(a)[k] :
        k \in DOMAIN _callable_function_descriptions(a) }

\* C10: the callable-function list built for an agent holds a registered
\* function exactly when its role filter matches the agent's role: a function
\* limited to "reviewer" is absent for the role "agent" and present for the
\* role "reviewer", and the list is what think_and_act attaches to its request.
C10_RoleFiltering ==
    /\ \A a \in Constructed:
          LET described == Described(a)
          IN \A k \in DOMAIN CALLABLE_FUNCTION_TABLE:
                LET function == CALLABLE_FUNCTION_TABLE[k]
                IN /\ function.sig \in described <=>
                          re_match(function.role_name_filter, agents[a].role)
                   /\ function.role_name_filter = "reviewer" =>
                          (function.sig \in described <=>
                              agents[a].role = "reviewer")
                   /\ function.role_name_filter = ".*" =>
                          function.sig \in described
    /\ Iterated =>
          IF Described(last.agent) = {}
          THEN DOMAIN last.request[1] = {"messages"}
          ELSE last.request[1].functions =
                   _callable_function_descriptions(last.agent)

\* With a function limited to "reviewer" registered, an agent of role "agent"
\* exists and a reviewer has just been offered the function.
C10_Witness ==
    /\ \E k \in DOMAIN CALLABLE_FUNCTION_TABLE:
          CALLABLE_FUNCTION_TABLE[k].role_name_filter = "reviewer"
    /\ \E a \in Constructed:
          /\ agents[a].role = "agent"
          /\ \A k \in DOMAIN _callable_function_descriptions(a):
                _callable_function_descriptions(a)[k].name # "review"
    /\ Iterated
    /\ agents[last.agent].role = "reviewer"
    /\ \E k \in DOMAIN last.request[1].functions:
          last.request[1].functions[k].name = "review"

\* A registered function that takes its interactive space as self.
SpaceBound(function_name) ==
    /\ function_name \in TableNames
    /\ TableEntry(function_name).has_world_param

Offered(request) ==
    IF "functions" \in DOMAIN request
    THEN { request.functions[k].name : k \in DOMAIN request.functions }
    ELSE {}

\* C11 as stated: a function bound to an interactive space is offered to and
\* invoked by an agent only if that space is attached to the agent; an avatar
\* derived with interactive_objects=[] is never offered such a function and
\* never invokes one, and whenever one is invoked the value bound to self is
\* the space instance.
C11_SpaceBound ==
    Iterated =>
        /\ agents[last.agent].avatar =>
              /\ \A function_name \in Offered(last.request[1]):
                    ~SpaceBound(function_name)
              /\ \A k \in DOMAIN last.dispatch:
                    \A j \in DOMAIN last.dispatch[k].invoked:
                        ~SpaceBound(last.dispatch[k].invoked[j].name)
        /\ \A k \in DOMAIN last.dispatch:
              \A j \in DOMAIN last.dispatch[k].invoked:
                  SpaceBound(last.dispatch[k].invoked[j].name) =>
                      last.dispatch[k].invoked[j].kwargs[WORLD_PARAM_NAME] = Database

\* The text content fragments of the deltas, in order.
RECURSIVE ContentFragments(_)
ContentFragments(deltas) ==
    IF deltas = <<>> THEN <<>>
    ELSE (IF "content" \in DOMAIN Head(deltas) /\ Head(deltas).content # PyNone
          THEN << Head(deltas).content.v >> ELSE <<>>)
         \o ContentFragments(Tail(deltas))

\* The fragments of one field of the function call, in order.
RECURSIVE FieldFragments(_, _)
FieldFragments(deltas, field) ==
    IF deltas = <<>> THEN <<>>
    ELSE (IF /\ "function_call" \in DOMAIN Head(deltas)
             /\ field \in DOMAIN Head(deltas).function_call
          THEN << Head(deltas).function_call[field] >> ELSE <<>>)
         \o FieldFragments(Tail(deltas), field)

RECURSIVE Concat(_)
Concat(fragments) ==
    IF fragments = <<>> THEN "" ELSE Head(fragments) \o Concat(Tail(fragments))

\* The fragments from the first one on that is neither empty nor two newlines.
RECURSIVE FromFirstText(_)
FromFirstText(fragments) ==
    IF fragments = <<>> THEN <<>>
    ELSE IF Head(fragments) \in {"", "\n\n"} THEN FromFirstText(Tail(fragments))
    ELSE fragments

StreamDone == stream.pc = "done"

CallDeltas == { k \in DOMAIN stream.seen: "function_call" \in DOMAIN stream.seen[k] }

\* The function_call key and the fields under it are what the fragments give.
CallFieldsConcatenated ==
    LET message == stream.message[1]
    IN /\ "function_call" \in DOMAIN message <=> CallDeltas # {}
       /\ "function_call" \in DOMAIN message =>
             \A field \in {"name", "arguments"}:
                 /\ field \in DOMAIN message.function_call <=>
                       FieldFragments(stream.seen, field) # <<>>
                 /\ field \in DOMAIN message.function_call =>
                       message.function_call[field] =
                           Concat(FieldFragments(stream.seen, field))

\* C12 as stated: the returned content is the concatenation of all the
\* content fragments, in order.
C12_Original ==
    StreamDone =>
        /\ stream.message[1].content = Concat(ContentFragments(stream.seen))
        /\ CallFieldsConcatenated

\* C12: for any delta stream the returned content is the in-order
\* concatenation of the content fragments from the first one on that is
\* neither empty nor a two-newline fragment (None contents are no fragments);
\* every field of the function call is the in-order concatenation of its
\* fragments, and the function_call key is present exactly when a
\* function-call delta was received.
C12_Concatenation ==
    StreamDone =>
        /\ stream.message[1].content =
              Concat(FromFirstText(ContentFragments(stream.seen)))
        /\ CallFieldsConcatenated
        /\ DOMAIN stream.message[1] \subseteq {"role", "content", "function_call"}

\* A returned message whose function-call arguments were put together from
\* three fragments, the name from one.
C12_Witness ==
    /\ StreamDone
    /\ Len(FieldFragments(stream.seen, "arguments")) = 3
    /\ stream.message[1].function_call = [name |-> "rephrase", arguments |-> "{\"a\": 1}"]

\* C13: a two-newline content fragment is dropped if and only if no content
\* has been accumulated when it arrives; arriving after content it is
\* appended, and what has been accumulated stays, up to the returned message.
C13_LeadingNewlines ==
    [][ /\ (/\ stream.pc = "loop"
            /\ stream.resp # <<>>
            /\ "content" \in DOMAIN Head(stream.resp)
            /\ Head(stream.resp).content = PyStr("\n\n")) =>
               /\ stream'.content = stream.content <=> stream.content = ""
               /\ stream.content # "" => stream'.content = stream.content \o "\n\n"
        /\ IsPrefix(stream.content, stream'.content)
        /\ stream'.pc = "done" => stream'.message[1].content = stream.content
      ]_vars

\* A stream whose first two-newline fragment was dropped and whose second,
\* arriving after text, was kept.
C13_Witness ==
    /\ StreamDone
    /\ ContentFragments(stream.seen) = << "\n\n", "Hi", "\n\n" >>
    /\ stream.message[1].content = "Hi\n\n"

ReviewDone == review.pc = "done"

\* The number of replies of a vote that, lower-cased, start with "y".
Yes(contents) ==
    Cardinality({ k \in DOMAIN contents:
                    contents[k] # "" /\ Head(contents[k]) \in {"y", "Y"} })

RECURSIVE IsSubsequence(_, _)
IsSubsequence(s, t) ==
    IF s = <<>> THEN TRUE
    ELSE IF t = <<>> THEN FALSE
    ELSE IF Head(s) = Head(t) THEN IsSubsequence(Tail(s), Tail(t))
    ELSE IsSubsequence(s, Tail(t))

\* The probes made for the vote of the given kind on the fact of index idx.
ProbesOf(kind, idx) ==
    { k \in DOMAIN review.result[1].probed:
        review.result[1].probed[k].vote = << kind, idx >> }

\* C14 as stated: review_info returns a list, an order-preserving
\* subsequence of the facts, that holds a probed fact if and only if at least
\* 3 of its 5 usefulness probes answered with a content that, lower-cased,
\* starts with "y".
C14_MajorityVote ==
    (ReviewDone /\ review.self = Database) =>
        LET result == review.result[1]
        IN /\ result.kind = "return"
           /\ IsSubsequence(result.value, info_list)
           /\ \A i \in DOMAIN info_list:
                 ProbesOf("useful", i - 1) # {} =>
                     /\ Cardinality(ProbesOf("useful", i - 1)) = 5
                     /\ (\E k \in DOMAIN result.value: result.value[k] = info_list[i])
                           <=> Yes(review.replies[i].useful) >= 3

\* The step that reads a line, and the line it read.
Reads(line) == last'.op = "input" /\ last'.args.user_message = line

\* C15: the line "::mem" issues no completion request and the loop goes on
\* to read the next line; each of "quit", "exit", "q" and "quit()" ends the
\* loop: no completion request follows and no further line is read.
C15_Commands ==
    [][ /\ Reads("::mem") =>
              /\ console'.pc = "loop"
              /\ frame'.pc = "idle"
              /\ heap' = heap
        /\ (\E line \in {"quit", "exit", "q", "quit()"}: Reads(line)) =>
              /\ console'.pc = "exited"
              /\ frame'.pc = "idle"
              /\ heap' = heap
        /\ console.pc = "exited" => vars' = vars
        /\ last'.op = "think_and_act_iteration" =>
              console.line \notin {"::mem", "quit", "exit", "q", "quit()"}
      ]_vars

\* "::mem" was typed after a conversation of three messages and the loop is
\* ready to read the next line.
C15_Witness ==
    /\ last.op = "input"
    /\ console.line = "::mem"
    /\ console.pc = "loop"
    /\ Len(memory(1)) >= 3

\* C16 as stated: a blank or whitespace-only line appends nothing and causes
\* no completion request before the next line is read.
C16_Original ==
    (last.op = "input" /\ console.line \in {"", "  "}) => frame.pc = "idle"

\* C16: a blank or whitespace-only line appends no user message, but
\* think_and_act is still called: one completion request is issued on the
\* memory as it stands before the next line is read.
C16_BlankLine ==
    [][ /\ (Reads("") \/ Reads("  ")) =>
              /\ heap' = heap
              /\ frame' = [ pc |-> "loop", agent |-> 1, world |-> PyNone, i |-> 0,
                            requests |-> 0 ]
        /\ (frame.pc = "loop" /\ console.line \in {"", "  "}) =>
              /\ last.op = "input"
              /\ last'.op = "think_and_act_iteration"
              /\ Len(last'.request) = 1
              /\ last'.request[1].messages = memory(1)
              /\ frame'.requests = 1
      ]_vars

\* After a blank first line the reply of the assistant follows the system
\* prompt directly: no user message lies between them.
C16_Witness ==
    /\ last.op = "think_and_act_iteration"
    /\ console.line \in {"", "  "}
    /\ Len(memory(1)) = 2
    /\ memory(1)[2].role = "assistant"
    /\ frame.requests = 1

\* The number of times the definition file of the persona was opened.
Opened(name) == Cardinality({ k \in DOMAIN opened: opened[k] = name })

\* C17 as stated: a persona's definition file is read at most once, and a
\* call of a persona function leaves the persona's (agent, template) pair in
\* the cache, which is the pair _load_bot returned.
C17_LoadedOnce ==
    /\ \A name \in Personas: Opened(name) <= 1
    /\ last.op \in Personas =>
          /\ last.op \in DOMAIN BOTS
          /\ ~last.raised

\* A registered function was requested with no arguments to speak of: the
\* key is missing, or its value is None or the empty text.
NoArguments ==
    /\ Iterated
    /\ RequestsCall(last.new_message[1])
    /\ last.new_message[1].function_call.name \in TableNames
    /\ \/ "arguments" \notin DOMAIN last.new_message[1].function_call
       \/ last.new_message[1].function_call.arguments \in {PyNone, PyStr("")}

\* C18 as stated: absent or empty arguments (missing key, null, empty text)
\* are taken as an empty object; the function is invoked with the injected
\* bindings only and no error result is produced for the missing arguments.
C18_EmptyArguments ==
    NoArguments =>
        /\ Len(last.dispatch[1].invoked) = 1
        /\ DOMAIN last.dispatch[1].invoked[1].kwargs \subseteq ReservedParams

\* The sufficiency votes that reached 3 of 5 affirmative answers.
Sufficed ==
    { i \in DOMAIN info_list:
        /\ ProbesOf("sufficient", i - 1) # {}
        /\ Yes(review.replies[i].sufficient) >= 3 }

\* C19 as stated: the sufficiency vote is taken only after a fact that was
\* accepted and is not the last; once such a vote reaches 3 of 5 no later fact
\* is probed and the accumulated list is returned; otherwise every fact, the
\* last included, receives exactly num_confirms usefulness probes, and the
\* probes run one after another in the order of the facts.
C19_ProbeOrder ==
    (ReviewDone /\ review.self = Database) =>
        LET result == review.result[1]
        IN /\ result.kind = "return"
           /\ \A i \in DOMAIN info_list:
                 /\ ProbesOf("sufficient", i - 1) # {} =>
                       /\ Yes(review.replies[i].useful) >= 3
                       /\ i < Len(info_list)
                       /\ Cardinality(ProbesOf("sufficient", i - 1)) = num_confirms
                 /\ IF \E j \in Sufficed: j < i
                    THEN ProbesOf("useful", i - 1) = {}
                    ELSE Cardinality(ProbesOf("useful", i - 1)) = num_confirms
                 /\ i \in Sufficed => result.value[Len(result.value)] = info_list[i]
           /\ \A k, l \in DOMAIN result.probed:
                 k < l =>
                     \/ result.probed[k].vote[2] < result.probed[l].vote[2]
                     \/ /\ result.probed[k].vote[2] = result.probed[l].vote[2]
                        /\ result.probed[k].vote[1] = "sufficient" =>
                              result.probed[l].vote[1] = "sufficient"

\* In the memory every assistant message that carries a function call is
\* followed at once by the function message of the same name.
CallsAnswered(contents) ==
    \A k \in DOMAIN contents:
        (contents[k].role = "assistant" /\ RequestsCall(contents[k])) =>
            /\ k < Len(contents)
            /\ contents[k + 1].role = "function"
            /\ contents[k + 1].name = contents[k].function_call.name

----------------------------------------------------------------------------
(* C21 *)

\* The step registers an agent in world w.
Registers(w) == last'.op \in {"add_agent", "add"} /\ last'.args.world = w

\* The mapping d with the agent stored under the name, whatever was there.
Stored(d, name, agent) ==
    [ k \in DOMAIN d \cup {name} |-> IF k = name THEN agent ELSE d[k] ]

\* add_agent and add store the agent under its name in the world they are
\* called on, over any agent of that name.
C21_StoredUnderName ==
    [][\A w \in DOMAIN worlds:
          Registers(w) =>
              \E name \in AgentNames, a \in DOMAIN agents':
                  /\ name = last'.args.name
                  /\ a = last'.agent
                  /\ agents'[a].name = name
                  /\ self_agents(w)' = Stored(self_agents(w), name, a)]_vars

\* C21: each World instance owns its agents mapping: add_agent or add on one
\* World stores the agent under its name, over any agent of that name, in
\* that World only, and the mapping of every other World is unchanged.
C21_OwnMapping ==
    [][\A w \in DOMAIN worlds:
          Registers(w) =>
              /\ self_agents(w)' = Stored(self_agents(w), last'.args.name, last'.agent)
              /\ \A v \in DOMAIN worlds \ {w}: self_agents(v)' = self_agents(v)]_vars

====
